---- MODULE Spec2Model ----
(***************************************************************************)
(* N-dimensional convolution of ndarray-conv (src/src/conv/mod.rs):        *)
(* ConvMode::unfold (mode resolution) and ConvExt::conv (padded buffer,    *)
(* tap offset list, output shape, anchor view and accumulation loop).      *)
(*                                                                         *)
(* Arrays are modelled as a shape (a sequence of axis lengths, axis 1 the  *)
(* outermost) and a flat row-major sequence of elements.  Flat offsets     *)
(* and indices are 0-based as in the code; the element at flat offset f    *)
(* of a buffer is data[f + 1].                                             *)
(***************************************************************************)
EXTENDS Integers, Sequences, FiniteSets, TLC

\* ---------------------------------------------------------------- bounds
MaxIn == 2
MaxKernel == 2
MaxDilation == 2
MaxPad == 1
MaxStride == 2

Ranks == {1, 2}
InputDims == 0..MaxIn
KernelDims == 0..MaxKernel
\* Dilations, paddings and strides are sampled at their ends.
Dilations == {1, MaxDilation}
Pads == {0, MaxPad}
StrideVals == {0, 1, MaxStride}

VARIABLES
    self_shape,     \* self.raw_dim()
    self_data,      \* the input's elements, row-major
    kernel_shape,   \* kernel.kernel.raw_dim()
    kernel_data,    \* the kernel's weights, row-major
    dilation,       \* kernel.dilation
    conv_mode,      \* the ConvMode passed to conv
    pc,             \* position inside conv, or how the call ended (see below)
    cm,             \* ExplicitConv returned by unfold
    pds,            \* padded buffer: [shape, strides, data]
    offset_list,    \* sequence of [offset, weight]
    ret,            \* output array: [shape, data]
    view,           \* anchor view: [shape, strides]
    index,          \* the view iterator's current multi-index (0-based)
    i,              \* the enumerate() counter
    reads,          \* flat padded-buffer offsets read so far
    anchors,        \* anchors[k+1]: anchor offset used for the write to flat index k
    writes          \* writes[k+1]: number of writes to output flat index k

\* pc is "conv" at the call, then "unfolded", "padded", "offsets", "allocated"
\* and "iterating" after the statements of conv in their order, and ends as
\*   "returned"   Some(ret) was returned (the only return of conv);
\*   "panicked"   a panic unwound the call (overflow check, division by zero,
\*                unwrap of a rejected view);
\*   "wrapped"    a usize subtraction wrapped around in a build without
\*                overflow checks; the call goes on with the wrapped value
\*                and is not followed here;
\*   "undefined"  the unsafe block read or wrote outside its buffer.
vars == <<self_shape, self_data, kernel_shape, kernel_data, dilation, conv_mode,
          pc, cm, pds, offset_list, ret, view, index, i, reads, anchors, writes>>

\* ------------------------------------------------------- array primitives
RECURSIVE Product(_)
Product(s) == IF Len(s) = 0 THEN 1 ELSE Head(s) * Product(Tail(s))

\* Row-major (C order) strides of a contiguous array of this shape: the
\* product of the trailing lengths.
RowMajorStrides(shape) ==
    [a \in 1..Len(shape) |-> Product(SubSeq(shape, a + 1, Len(shape)))]

\* ndarray's default strides: row-major, and all zero for an array with an
\* axis of length 0.
DefaultStrides(shape) ==
    IF \E a \in 1..Len(shape) : shape[a] = 0
    THEN [a \in 1..Len(shape) |-> 0]
    ELSE RowMajorStrides(shape)

RECURSIVE Dot(_, _)
Dot(u, v) == IF Len(u) = 0 THEN 0 ELSE Head(u) * Head(v) + Dot(Tail(u), Tail(v))

\* The multi-index (0-based) of the cell with row-major flat index f.
Unravel(f, shape) ==
    [a \in 1..Len(shape) |-> (f \div RowMajorStrides(shape)[a]) % shape[a]]

\* The multi-index that follows idx in logical row-major order, or <<>> when
\* idx is the last one: the last axis moves fastest, with carry.
RECURSIVE NextIndex(_, _)
NextIndex(idx, shape) ==
    IF Len(idx) = 0 THEN <<>>
    ELSE LET n == Len(idx) IN
         IF idx[n] + 1 < shape[n]
         THEN [idx EXCEPT ![n] = idx[n] + 1]
         ELSE LET up == NextIndex(SubSeq(idx, 1, n - 1), SubSeq(shape, 1, n - 1))
              IN IF Len(up) = 0 THEN <<>> ELSE Append(up, 0)

Zeros(n) == [k \in 1..n |-> 0]
Ramp(n) == [k \in 1..n |-> k]

FirstIndex(shape) ==
    IF \E a \in 1..Len(shape) : shape[a] = 0 THEN <<>> ELSE Zeros(Len(shape))

\* --------------------------------------------------------- ConvMode::unfold
\* Mutant: the span taken for the kernel's own length, the dilation forgotten.
kernel_dim_undilated(ks, dil) ==
    [a \in 1..Len(ks) |-> ks[a]]

\* Mutant: the span without its final + 1.
kernel_dim_without_one(ks, dil) ==
    [a \in 1..Len(ks) |-> ks[a] * dil[a] - dil[a]]

\* Dilated kernel span per axis: k * d - d + 1, evaluated left to right in usize.
kernel_dim(ks, dil) ==
    [a \in 1..Len(ks) |-> ks[a] * dil[a] - dil[a] + 1]

\* Whether a usize subtraction of unfold leaves the range of usize.
UnfoldUnderflows(mode, ks, dil) ==
    \E a \in 1..Len(ks) :
        \/ ks[a] * dil[a] < dil[a]
        \/ mode.tag \in {"Full", "Same"} /\ kernel_dim(ks, dil)[a] < 1

\* Mutant: the even case forgotten, both sides padded by (span - 1) / 2.
SamePadding_symmetric(k_size) ==
    <<(k_size - 1) \div 2, (k_size - 1) \div 2>>

\* Mutant: the extra cell of an even span on the trailing side.
SamePadding_trailing(k_size) ==
    IF k_size % 2 = 0
    THEN <<(k_size - 1) \div 2, (k_size - 1) \div 2 + 1>>
    ELSE <<(k_size - 1) \div 2, (k_size - 1) \div 2>>

\* Same: [(k_size - 1) / 2 + 1, (k_size - 1) / 2] for an even span,
\* [(k_size - 1) / 2; 2] for an odd one.
SamePadding(k_size) ==
    IF k_size % 2 = 0
    THEN <<(k_size - 1) \div 2 + 1, (k_size - 1) \div 2>>
    ELSE <<(k_size - 1) \div 2, (k_size - 1) \div 2>>

\* Mutant: the padding applied before the input only.
CustomPadding_leading_only(pad) == <<pad, 0>>

\* Custom: padding.map(|pad| [pad; 2])
CustomPadding(pad) == <<pad, pad>>

unfold(mode, ks, dil) ==
    LET kd == kernel_dim(ks, dil)
        D  == 1..Len(ks)
    IN CASE mode.tag = "Full" ->
              [padding |-> [a \in D |-> <<kd[a] - 1, kd[a] - 1>>],
               strides |-> [a \in D |-> 1]]
         [] mode.tag = "Same" ->
              [padding |-> [a \in D |-> SamePadding(kd[a])],
               strides |-> [a \in D |-> 1]]
         [] mode.tag = "Valid" ->
              [padding |-> [a \in D |-> <<0, 0>>],
               strides |-> [a \in D |-> 1]]
         [] mode.tag = "Custom" ->
              [padding |-> [a \in D |-> CustomPadding(mode.padding[a])],
               strides |-> mode.strides]
         [] mode.tag = "Explicit" ->
              [padding |-> mode.padding, strides |-> mode.strides]

\* ------------------------------------------------- external collaborators
\* PaddingExt::padding with PaddingMode::Zeros: a contiguous row-major buffer
\* of shape n + before + after per axis, the input at offset `before`, zeros
\* elsewhere.
padding(shape, data, pad) ==
    LET D == 1..Len(shape)
        P == [a \in D |-> shape[a] + pad[a][1] + pad[a][2]]
    IN [shape   |-> P,
        strides |-> DefaultStrides(P),
        data    |-> [f \in 1..Product(P) |->
                       LET p   == Unravel(f - 1, P)
                           src == [a \in D |-> p[a] - pad[a][1]]
                       IN IF \A a \in D : src[a] >= 0 /\ src[a] < shape[a]
                          THEN data[Dot(src, DefaultStrides(shape)) + 1]
                          ELSE 0]]

\* KernelWithDilation::gen_offset_list: one (flat offset, weight) pair per
\* kernel cell in row-major order; axis a at kernel index j contributes
\* j * dilation[a] * pds_strides[a].
gen_offset_list(ks, kdata, dil, pds_strides) ==
    [t \in 1..Product(ks) |->
        [offset |-> Dot([a \in 1..Len(ks) |-> Unravel(t - 1, ks)[a] * dil[a]],
                        pds_strides),
         weight |-> kdata[t]]]

\* ------------------------------------------------------------ ConvExt::conv
kernel_raw_dim_with_dilation(ks, dil) ==
    [a \in 1..Len(ks) |-> ks[a] * dil[a] - dil[a] + 1]

\* The dividend of the output-shape computation, per axis (may be negative
\* here; in usize that is an underflow).
ShapeDividend(c, in_shape, ks, dil) ==
    [a \in 1..Len(ks) |->
        c.padding[a][1] + c.padding[a][2] + in_shape[a]
            - kernel_raw_dim_with_dilation(ks, dil)[a]]

ShapeUnderflows(c, in_shape, ks, dil) ==
    \E a \in 1..Len(ks) :
        \/ ks[a] * dil[a] < dil[a]
        \/ ShapeDividend(c, in_shape, ks, dil)[a] < 0

DividesByZero(c) == \E a \in 1..Len(c.strides) : c.strides[a] = 0

\* Mutant: the quotient rounded up instead of down.
output_shape_rounding_up(c, in_shape, ks, dil) ==
    [a \in 1..Len(ks) |->
        (ShapeDividend(c, in_shape, ks, dil)[a] + c.strides[a] - 1)
            \div c.strides[a] + 1]

\* Mutant: the final + 1 forgotten.
output_shape_without_one(c, in_shape, ks, dil) ==
    [a \in 1..Len(ks) |->
        ShapeDividend(c, in_shape, ks, dil)[a] \div c.strides[a]]

output_shape(c, in_shape, ks, dil) ==
    [a \in 1..Len(ks) |->
        ShapeDividend(c, in_shape, ks, dil)[a] \div c.strides[a] + 1]

\* Mutant: the anchor view walks the padded buffer with the buffer's own
\* strides, the convolution stride forgotten.
view_strides_without_conv_stride(c, pds_strides) == pds_strides

\* Mutant: the anchor view's strides are the convolution strides alone.
view_strides_without_buffer_stride(c, pds_strides) == c.strides

\* let strides = cm.strides[i] * pds.strides()[i]
view_strides(c, pds_strides) ==
    [a \in 1..Len(pds_strides) |-> c.strides[a] * pds_strides[a]]

\* ArrayView::from_shape(shape.strides(strides), slice): ndarray accepts the
\* view when its largest offset lies inside the slice and no two cells alias.
MaxOffset(shape, strides) ==
    Dot([a \in 1..Len(shape) |-> IF shape[a] = 0 THEN 0 ELSE shape[a] - 1], strides)

\* The summed extent (length - 1) * stride of the axes 1..n that come before
\* axis a in the order of increasing stride and hold more than one cell.
RECURSIVE FasterExtent(_, _, _, _)
FasterExtent(shape, strides, a, n) ==
    IF n = 0 THEN 0
    ELSE FasterExtent(shape, strides, a, n - 1)
         + (IF /\ n # a
               /\ shape[n] > 1
               /\ \/ strides[n] < strides[a]
                  \/ strides[n] = strides[a] /\ n < a
            THEN (shape[n] - 1) * strides[n]
            ELSE 0)

\* Two cells alias when the stride of an axis with more than one cell does
\* not exceed the summed extent of all the axes of smaller stride.
StridesOverlap(shape, strides) ==
    \E a \in 1..Len(shape) :
        /\ shape[a] > 1
        /\ strides[a] <= FasterExtent(shape, strides, a, Len(shape))

CanIndexSlice(shape, strides, len) ==
    LET empty == \E a \in 1..Len(shape) : shape[a] = 0
    IN IF empty
       THEN MaxOffset(shape, strides) <= len
       ELSE /\ MaxOffset(shape, strides) < len
            /\ ~StridesOverlap(shape, strides)

\* The addresses (flat offsets into the padded buffer) one output cell reads.
TapAddresses(cur, offs) == {cur + offs[t].offset : t \in 1..Len(offs)}

\* tmp_res: T::zero() plus, for each tap in order, *cur.offset(off) * weight.
RECURSIVE Accumulate(_, _, _)
Accumulate(cur, offs, data) ==
    IF Len(offs) = 0 THEN 0
    ELSE Accumulate(cur, SubSeq(offs, 1, Len(offs) - 1), data)
         + data[cur + offs[Len(offs)].offset + 1] * offs[Len(offs)].weight

\* ------------------------------------------------------------------ inputs
SeqsOf(r, S) == [1..r -> S]

ConvModes(r) ==
    {[tag |-> t, padding |-> <<>>, strides |-> <<>>] : t \in {"Full", "Same", "Valid"}}
    \cup {[tag |-> "Custom", padding |-> p, strides |-> s] :
            p \in SeqsOf(r, Pads), s \in SeqsOf(r, StrideVals)}
    \cup {[tag |-> "Explicit", padding |-> p, strides |-> s] :
            p \in SeqsOf(r, Pads \X Pads), s \in SeqsOf(r, StrideVals)}

NoRecord == [shape |-> <<>>, strides |-> <<>>, data |-> <<>>]

Init ==
    \E r \in Ranks :
        /\ self_shape \in SeqsOf(r, InputDims)
        /\ kernel_shape \in SeqsOf(r, KernelDims)
        /\ dilation \in SeqsOf(r, Dilations)
        /\ conv_mode \in ConvModes(r)
        /\ self_data = Ramp(Product(self_shape))
        /\ kernel_data = Ramp(Product(kernel_shape))
        /\ pc = "conv"
        /\ cm = [padding |-> <<>>, strides |-> <<>>]
        /\ pds = NoRecord
        /\ offset_list = <<>>
        /\ ret = [shape |-> <<>>, data |-> <<>>]
        /\ view = [shape |-> <<>>, strides |-> <<>>]
        /\ index = <<>>
        /\ i = 0
        /\ reads = {}
        /\ anchors = <<>>
        /\ writes = <<>>

\* ----------------------------------------------------------------- actions
\* let cm = conv_mode.unfold(&kernel);  A usize underflow panics in a build
\* with overflow checks and wraps in one without.
Unfold ==
    /\ pc = "conv"
    /\ IF UnfoldUnderflows(conv_mode, kernel_shape, dilation)
       THEN /\ pc' \in {"panicked", "wrapped"}
            /\ cm' = cm
       ELSE /\ cm' = unfold(conv_mode, kernel_shape, dilation)
            /\ pc' = "unfolded"
    /\ UNCHANGED <<self_shape, self_data, kernel_shape, kernel_data, dilation,
                   conv_mode, pds, offset_list, ret, view, index, i, reads,
                   anchors, writes>>

\* let pds = self.padding(padding_mode, cm.padding);
Padding ==
    /\ pc = "unfolded"
    /\ pds' = padding(self_shape, self_data, cm.padding)
    /\ pc' = "padded"
    /\ UNCHANGED <<self_shape, self_data, kernel_shape, kernel_data, dilation,
                   conv_mode, cm, offset_list, ret, view, index, i, reads,
                   anchors, writes>>

\* let offset_list = kernel.gen_offset_list(pds.strides());
GenOffsetList ==
    /\ pc = "padded"
    /\ offset_list' = gen_offset_list(kernel_shape, kernel_data, dilation, pds.strides)
    /\ pc' = "offsets"
    /\ UNCHANGED <<self_shape, self_data, kernel_shape, kernel_data, dilation,
                   conv_mode, cm, pds, ret, view, index, i, reads, anchors, writes>>

\* let output_shape = ...; let mut ret = Array::zeros(output_shape);
\* A zero stride divides by zero (a panic in every build); an underflowing
\* subtraction panics with overflow checks and wraps without.
OutputShape ==
    /\ pc = "offsets"
    /\ IF DividesByZero(cm)
       THEN pc' = "panicked" /\ ret' = ret
       ELSE IF ShapeUnderflows(cm, self_shape, kernel_shape, dilation)
       THEN pc' \in {"panicked", "wrapped"} /\ ret' = ret
       ELSE LET shape == output_shape(cm, self_shape, kernel_shape, dilation)
            IN /\ ret' = [shape |-> shape, data |-> Zeros(Product(shape))]
               /\ pc' = "allocated"
    /\ UNCHANGED <<self_shape, self_data, kernel_shape, kernel_data, dilation,
                   conv_mode, cm, pds, offset_list, view, index, i, reads,
                   anchors, writes>>

\* let view = ArrayView::from_shape(shape.strides(strides), slice).unwrap();
\* view.iter().enumerate()
MakeView ==
    /\ pc = "allocated"
    /\ LET shape   == ret.shape
           strides == view_strides(cm, pds.strides)
       IN IF CanIndexSlice(shape, strides, Len(pds.data))
          THEN /\ view' = [shape |-> shape, strides |-> strides]
               /\ index' = FirstIndex(shape)
               /\ pc' = "iterating"
          ELSE /\ pc' = "panicked"
               /\ UNCHANGED <<view, index>>
    /\ anchors' = Zeros(Len(ret.data))
    /\ writes' = Zeros(Len(ret.data))
    /\ UNCHANGED <<self_shape, self_data, kernel_shape, kernel_data, dilation,
                   conv_mode, cm, pds, offset_list, ret, i, reads>>

\* One turn of the for_each closure: cur is the view's element at `index`,
\* the sum of the taps goes to *p.add(i).  A read or write outside its buffer
\* is undefined behaviour: the call is not followed any further.
Accumulation ==
    /\ pc = "iterating"
    /\ index # <<>>
    /\ LET cur   == Dot(index, view.strides)
           addrs == TapAddresses(cur, offset_list)
       IN /\ reads' = reads \cup addrs
          /\ IF /\ \A x \in addrs : x >= 0 /\ x < Len(pds.data)
                /\ i < Len(ret.data)
             THEN /\ ret' = [ret EXCEPT !.data[i + 1] =
                                Accumulate(cur, offset_list, pds.data)]
                  /\ anchors' = [anchors EXCEPT ![i + 1] = cur]
                  /\ writes' = [writes EXCEPT ![i + 1] = @ + 1]
                  /\ index' = NextIndex(index, view.shape)
                  /\ i' = i + 1
                  /\ pc' = pc
             ELSE /\ pc' = "undefined"
                  /\ UNCHANGED <<ret, anchors, writes, index, i>>
    /\ UNCHANGED <<self_shape, self_data, kernel_shape, kernel_data, dilation,
                   conv_mode, cm, pds, offset_list, view>>

\* Some(ret)
Return ==
    /\ pc = "iterating"
    /\ index = <<>>
    /\ pc' = "returned"
    /\ UNCHANGED <<self_shape, self_data, kernel_shape, kernel_data, dilation,
                   conv_mode, cm, pds, offset_list, ret, view, index, i, reads,
                   anchors, writes>>

Next ==
    \/ Unfold
    \/ Padding
    \/ GenOffsetList
    \/ OutputShape
    \/ MakeView
    \/ Accumulation
    \/ Return

Spec == Init /\ [][Next]_vars

\* ------------------------------------------------------- shared vocabulary
Axes == 1..Len(self_shape)
Terminated == pc \in {"returned", "panicked", "wrapped", "undefined"}
Resolved == cm.padding # <<>>
Allocated == pc \in {"allocated", "iterating", "returned"}

\* The cells of an array of this shape, by flat row-major index.
Cells(shape) == 0..(Product(shape) - 1)

\* The dilated kernel span and the padded extent as integers.
Span(a) == kernel_shape[a] * dilation[a] - dilation[a] + 1
PaddedExtent(a) == cm.padding[a][1] + cm.padding[a][2] + self_shape[a]

\* A kernel with at least one tap on every axis whose span fits the padded input.
KernelFits ==
    /\ Resolved
    /\ \A a \in Axes : kernel_shape[a] >= 1 /\ Span(a) <= PaddedExtent(a)
StridesPositive == Resolved /\ \A a \in Axes : cm.strides[a] >= 1

\* The padded input by N-dimensional indexing of the input itself.
PaddedAt(p) ==
    LET src == [a \in Axes |-> p[a] - cm.padding[a][1]]
    IN IF \A a \in Axes : src[a] >= 0 /\ src[a] < self_shape[a]
       THEN self_data[Dot(src, DefaultStrides(self_shape)) + 1]
       ELSE 0

\* The padded coordinate that tap j of output cell o reads.
TapCoord(o, j) == [a \in Axes |-> o[a] * cm.strides[a] + j[a] * dilation[a]]

RECURSIVE RefSum(_, _)
RefSum(o, t) ==
    IF t = 0 THEN 0
    ELSE RefSum(o, t - 1)
         + kernel_data[t] * PaddedAt(TapCoord(o, Unravel(t - 1, kernel_shape)))

Reference(o) == RefSum(o, Product(kernel_shape))

\* C1: whenever the dilated span exceeds the padded extent on some axis,
\* conv ends by returning an error value (no panic, no wrapped subtraction,
\* no array).
C1_NoFitReturnsError ==
    (Terminated /\ Resolved /\ \E a \in Axes : Span(a) > PaddedExtent(a))
        => pc = "error"

\* C2: every cell of the returned array equals the reference sum computed by
\* N-dimensional indexing of the zero-padded input; during the loop the cell
\* just written does so too.
C2_MatchesReference ==
    /\ (pc = "iterating" /\ i > 0) =>
          ret.data[i] = Reference(Unravel(i - 1, ret.shape))
    /\ pc = "returned" =>
          \A k \in Cells(ret.shape) :
              ret.data[k + 1] = Reference(Unravel(k, ret.shape))

C2_Witness ==
    /\ pc = "returned"
    /\ Len(self_shape) = 2
    /\ Len(ret.data) >= 4
    /\ \E a \in Axes : cm.strides[a] = 2 /\ ret.shape[a] >= 2
    /\ \E a \in Axes : dilation[a] = 2 /\ kernel_shape[a] = 2
    /\ \E a \in Axes : cm.padding[a][1] # cm.padding[a][2]
    /\ \E k \in 1..Len(ret.data) : ret.data[k] > 0

\* The padded coordinates of every tap of every output cell.
AllTapCoords ==
    {TapCoord(Unravel(k, ret.shape), Unravel(t, kernel_shape)) :
        k \in Cells(ret.shape), t \in Cells(kernel_shape)}

\* C3: with the output allocated for a fitting configuration, every tap of
\* every output cell lies inside the padded buffer on every axis; every
\* address the loop reads is a flat offset inside the buffer, and at the
\* return the addresses read are exactly those of the taps.
C3_TapsInBounds ==
    /\ pc # "undefined"
    /\ \A x \in reads : x >= 0 /\ x < Len(pds.data)
    /\ pc \in {"allocated", "returned"} =>
          \A c \in AllTapCoords :
              \A a \in Axes : c[a] >= 0 /\ c[a] < pds.shape[a]
    /\ pc = "returned" =>
          reads = {Dot(c, pds.strides) : c \in AllTapCoords}

C3_Witness ==
    /\ pc = "returned"
    /\ KernelFits /\ StridesPositive
    /\ Len(self_shape) = 2
    /\ 0 \in reads
    /\ (Len(pds.data) - 1) \in reads
    /\ \E a \in Axes : cm.strides[a] = 2 /\ ret.shape[a] >= 2
    /\ \E a \in Axes : dilation[a] = 2 /\ kernel_shape[a] = 2

\* C4: for a kernel that fits and strides >= 1, conv returns, and the output
\* has length floor((padded extent - span) / stride) + 1 >= 1 on every axis.
C4_OutputShape ==
    /\ (Terminated /\ KernelFits /\ StridesPositive) => pc = "returned"
    /\ Allocated =>
        /\ KernelFits /\ StridesPositive
        /\ Len(ret.shape) = Len(self_shape)
        /\ \A a \in Axes :
            /\ ret.shape[a] = (PaddedExtent(a) - Span(a)) \div cm.strides[a] + 1
            /\ ret.shape[a] >= 1

\* A stride larger than the slack on one axis, a smaller one on the other.
C4_Witness ==
    /\ pc = "returned"
    /\ Len(self_shape) = 2
    /\ \E a \in Axes :
          /\ PaddedExtent(a) - Span(a) = 1
          /\ cm.strides[a] = 2
          /\ ret.shape[a] = 1
    /\ \E a \in Axes : cm.strides[a] = 2 /\ ret.shape[a] = 2

\* C5: an array returned under ConvMode::Same has the input's shape; with a
\* nonempty input and kernel the call does return.
C5_SameKeepsShape ==
    conv_mode.tag = "Same" =>
        /\ Allocated => ret.shape = self_shape
        /\ (Terminated /\ \A a \in Axes : self_shape[a] >= 1 /\ kernel_shape[a] >= 1)
              => pc = "returned"

\* One axis with an even span, one with an odd span.
C5_Witness ==
    /\ pc = "returned"
    /\ conv_mode.tag = "Same"
    /\ \E a \in Axes : Span(a) % 2 = 0
    /\ \E a \in Axes : Span(a) % 2 = 1 /\ Span(a) > 1
    /\ ret.shape = self_shape

\* C6: an array returned under ConvMode::Full has length input + span - 1 on
\* every axis; with a nonempty input and kernel the call does return.
C6_FullShape ==
    conv_mode.tag = "Full" =>
        /\ Allocated =>
              ret.shape = [a \in Axes |-> self_shape[a] + Span(a) - 1]
        /\ (Terminated /\ \A a \in Axes : self_shape[a] >= 1 /\ kernel_shape[a] >= 1)
              => pc = "returned"

C6_Witness ==
    /\ pc = "returned"
    /\ conv_mode.tag = "Full"
    /\ \E a \in Axes : dilation[a] = 2 /\ kernel_shape[a] = 2
    /\ \E a \in Axes : Span(a) = 2
    /\ \A a \in Axes : ret.shape[a] = self_shape[a] + Span(a) - 1

\* conv as a function of the mode: the point of failure, or the array.
ConvOutcome(mode) ==
    IF UnfoldUnderflows(mode, kernel_shape, dilation) THEN "unfold fails"
    ELSE LET c == unfold(mode, kernel_shape, dilation)
             b == padding(self_shape, self_data, c.padding)
         IN IF DividesByZero(c)
                \/ ShapeUnderflows(c, self_shape, kernel_shape, dilation)
            THEN "output_shape fails"
            ELSE LET shape == output_shape(c, self_shape, kernel_shape, dilation)
                     vs    == view_strides(c, b.strides)
                     offs  == gen_offset_list(kernel_shape, kernel_data, dilation,
                                              b.strides)
                 IN IF ~CanIndexSlice(shape, vs, Len(b.data))
                    THEN "from_shape fails"
                    ELSE [shape |-> shape,
                          data  |-> [k \in 1..Product(shape) |->
                                       Accumulate(Dot(Unravel(k - 1, shape), vs),
                                                  offs, b.data)]]

\* Where the call of this state failed, or the array it returned.
Outcome ==
    IF pc = "returned" THEN ret
    ELSE IF ~Resolved THEN "unfold fails"
    ELSE IF ret.shape = <<>> THEN "output_shape fails"
    ELSE "from_shape fails"

\* Explicit{padding: [[p, p]], strides} for Custom{padding: [p], strides}.
ExplicitTwin(mode) ==
    [tag     |-> "Explicit",
     padding |-> [a \in 1..Len(mode.padding) |-> <<mode.padding[a], mode.padding[a]>>],
     strides |-> mode.strides]

\* C7: a Custom call resolves to the padding and strides its Explicit twin
\* resolves to, and ends as the twin does: the same array, or a failure at
\* the same point.
C7_CustomIsExplicit ==
    conv_mode.tag = "Custom" =>
        /\ Resolved =>
              cm = unfold(ExplicitTwin(conv_mode), kernel_shape, dilation)
        /\ (Terminated /\ pc # "undefined") =>
              Outcome = ConvOutcome(ExplicitTwin(conv_mode))

C7_Witness ==
    /\ pc = "returned"
    /\ conv_mode.tag = "Custom"
    /\ Len(self_shape) = 2
    /\ conv_mode.padding = <<0, 1>>
    /\ conv_mode.strides = <<2, 1>>
    /\ Len(ret.data) >= 2
    /\ ret = ConvOutcome(ExplicitTwin(conv_mode))

\* C8 as stated: under Same an even span puts the extra padding cell on the
\* trailing side, an odd span pads symmetrically.
C8_ExtraPaddingTrailing ==
    (conv_mode.tag = "Same" /\ Resolved) =>
        \A a \in Axes :
            IF Span(a) % 2 = 0
            THEN cm.padding[a][2] = cm.padding[a][1] + 1
            ELSE cm.padding[a][2] = cm.padding[a][1]

\* C8 amended: under Same an even span puts the extra padding cell on the
\* leading side (padding[i][0] = padding[i][1] + 1), an odd span pads
\* symmetrically; both sides add up to span - 1.
C8_ExtraPaddingLeading ==
    (conv_mode.tag = "Same" /\ Resolved) =>
        \A a \in Axes :
            /\ cm.padding[a][1] + cm.padding[a][2] = Span(a) - 1
            /\ IF Span(a) % 2 = 0
               THEN cm.padding[a][1] = cm.padding[a][2] + 1
               ELSE cm.padding[a][1] = cm.padding[a][2]

C8_Witness ==
    /\ conv_mode.tag = "Same"
    /\ Resolved
    /\ \E a \in Axes : Span(a) = 2 /\ cm.padding[a] = <<1, 0>>
    /\ \E a \in Axes : Span(a) = 3 /\ cm.padding[a] = <<1, 1>>

\* The anchor of the output cell with flat index k, by N-dimensional indexing.
AnchorOf(k) ==
    LET o == Unravel(k, ret.shape)
    IN Dot([a \in Axes |-> o[a] * cm.strides[a]], pds.strides)

\* C9: the loop's counter is the row-major flat index of the iterator's
\* multi-index; cells 0 .. i-1 have been written exactly once each and no
\* other cell has been written; each write comes from the anchor of its own
\* cell; at the return i is the number of output cells and the anchors of
\* distinct cells are distinct.
C9_EachCellOnce ==
    /\ pc \in {"iterating", "returned"} =>
        /\ view.shape = ret.shape
        /\ index # <<>> => i = Dot(index, DefaultStrides(ret.shape))
        /\ index = <<>> => i = Product(ret.shape)
        /\ Len(writes) = Product(ret.shape)
        /\ \A k \in Cells(ret.shape) : writes[k + 1] = (IF k < i THEN 1 ELSE 0)
        /\ i > 0 => anchors[i] = AnchorOf(i - 1)
    /\ pc = "returned" =>
        /\ i = Product(ret.shape)
        /\ \A k \in Cells(ret.shape) : anchors[k + 1] = AnchorOf(k)
        /\ \A k, l \in Cells(ret.shape) : k # l => anchors[k + 1] # anchors[l + 1]

C9_Witness ==
    /\ pc = "returned"
    /\ Len(self_shape) = 2
    /\ \A a \in Axes : ret.shape[a] >= 2
    /\ cm.strides = <<1, 2>>
    /\ i = Product(ret.shape)
    /\ \A k \in Cells(ret.shape) : writes[k + 1] = 1

\* C10 as stated: for every mode, kernel and dilation, unfold completes and
\* returns a padding pair and a stride for every axis.
C10_UnfoldTotal ==
    pc # "conv" =>
        /\ Len(cm.padding) = Len(kernel_shape)
        /\ Len(cm.strides) = Len(kernel_shape)

\* C10 amended: for every mode, every kernel with at least one cell on every
\* axis and every dilation >= 1, no subtraction of unfold underflows (every
\* span is >= 1) and unfold returns a pair of naturals and a stride for every
\* axis.
C10_UnfoldTotalOnNonemptyKernel ==
    (pc # "conv" /\ \A a \in Axes : kernel_shape[a] >= 1) =>
        /\ ~UnfoldUnderflows(conv_mode, kernel_shape, dilation)
        /\ \A a \in Axes : kernel_dim(kernel_shape, dilation)[a] >= 1
        /\ Len(cm.padding) = Len(kernel_shape)
        /\ Len(cm.strides) = Len(kernel_shape)
        /\ \A a \in Axes :
              /\ Len(cm.padding[a]) = 2
              /\ cm.padding[a][1] \in Nat /\ cm.padding[a][2] \in Nat
              /\ cm.strides[a] \in Nat

C10_Witness ==
    /\ pc = "unfolded"
    /\ conv_mode.tag = "Full"
    /\ \E a \in Axes : kernel_shape[a] = 1 /\ cm.padding[a] = <<0, 0>>
    /\ \E a \in Axes : kernel_shape[a] = 2 /\ dilation[a] = 2 /\ cm.padding[a] = <<2, 2>>

====
